---------------------------- MODULE Spec2Model ----------------------------
(***************************************************************************)
(* Model of the WhatsApp webhook message pipeline of webhook_server.py:    *)
(* process_message (deduplication, staleness filter, cache clean-up,       *)
(* dispatch on the message type), generate_response (the registration      *)
(* state machine over pending_registrations), the Google Sheets directory  *)
(* client and send_response.                                               *)
(*                                                                         *)
(* Strings the code inspects (message bodies, greeting keywords) are       *)
(* sequences of one-character strings, so that lower(), strip() and the    *)
(* substring test `in` are computed.  Outbound texts are records naming    *)
(* the f-string template and the value substituted into it.                *)
(***************************************************************************)
EXTENDS Integers, Sequences, FiniteSets, TLC

(***************************************************************************)
(* Bounds of the model.                                                    *)
(***************************************************************************)
\* Size of the dedup cache in the model (the program's value is 1000).
MaxCache == 2
\* How often the watched message id may be delivered.
MaxDeliver == 2

(***************************************************************************)
(* Python string operations used by generate_response.                     *)
(***************************************************************************)
UpperCase == <<"A","B","C","D","E","F","G","H","I","J","K","L","M",
               "N","O","P","Q","R","S","T","U","V","W","X","Y","Z">>
LowerCase == <<"a","b","c","d","e","f","g","h","i","j","k","l","m",
               "n","o","p","q","r","s","t","u","v","w","x","y","z">>
Whitespace == {" ", "\t", "\n", "\r"}

\* str.lower() on one character
LowerChar(c) ==
    IF \E i \in 1..Len(UpperCase) : UpperCase[i] = c
    THEN LowerCase[CHOOSE i \in 1..Len(UpperCase) : UpperCase[i] = c]
    ELSE c

\* str.lower()
Lower(s) == [i \in 1..Len(s) |-> LowerChar(s[i])]

\* str.strip(): drops leading and trailing whitespace, keeps the inside
Strip(s) ==
    LET keep == {i \in 1..Len(s) : s[i] \notin Whitespace}
    IN  IF keep = {} THEN <<>>
        ELSE LET lo == CHOOSE i \in keep : \A j \in keep : i <= j
                 hi == CHOOSE i \in keep : \A j \in keep : j <= i
             IN  SubSeq(s, lo, hi)

\* the substring test `k in s`
Contains(s, k) ==
    \E i \in 0..(Len(s) - Len(k)) : SubSeq(s, i + 1, i + Len(k)) = k

\* greeting_keywords of generate_response
greeting_keywords ==
    << <<"h","e","l","l","o">>,
       <<"h","i">>,
       <<"h","e","y">>,
       <<"g","o","o","d"," ","m","o","r","n","i","n","g">>,
       <<"g","o","o","d"," ","a","f","t","e","r","n","o","o","n">>,
       <<"g","o","o","d"," ","e","v","e","n","i","n","g">>,
       <<"s","a","l","a","m">>,
       <<"m","a","r","h","a","b","a">> >>

\* faulty variant: the whole message must be a keyword
IsGreetingExact(user_message) ==
    \E i \in 1..Len(greeting_keywords) :
        Strip(Lower(user_message)) = greeting_keywords[i]

\* any(greeting in user_message_lower for greeting in greeting_keywords)
IsGreeting(user_message) ==
    LET user_message_lower == Strip(Lower(user_message))
    IN  \E i \in 1..Len(greeting_keywords) :
            Contains(user_message_lower, greeting_keywords[i])

(***************************************************************************)
(* The inbound messages.  A message id determines the message: a           *)
(* redelivery carries the same sender, type, timestamp and body.           *)
(* timestamp is "ok" for a numeric Unix time (BaseTime), "unparseable"     *)
(* for a value on which int() raises ValueError or TypeError (None,        *)
(* "abc", or a number whose year is out of range), and "overflow" for a    *)
(* number on which datetime.fromtimestamp raises OverflowError.            *)
(***************************************************************************)
Catalog ==
    << [from |-> "s1", type |-> "text",     timestamp |-> "ok",
        body |-> <<"H","i"," ">>],
       [from |-> "s1", type |-> "text",     timestamp |-> "ok",
        body |-> <<" ","A","l"," ">>],
       [from |-> "s1", type |-> "text",     timestamp |-> "ok",
        body |-> <<"o","k">>],
       [from |-> "s1", type |-> "image",    timestamp |-> "ok",
        body |-> <<>>],
       [from |-> "s1", type |-> "document", timestamp |-> "ok",
        body |-> <<>>],
       [from |-> "s1", type |-> "audio",    timestamp |-> "ok",
        body |-> <<>>],
       [from |-> "s2", type |-> "text",     timestamp |-> "ok",
        body |-> <<"t","h","i","s">>],
       [from |-> "s2", type |-> "text",     timestamp |-> "unparseable",
        body |-> <<"B","o","\n">>],
       [from |-> "s2", type |-> "text",     timestamp |-> "overflow",
        body |-> <<"h","e","y">>] >>

Ids == 1..Len(Catalog)
Senders == {Catalog[m].from : m \in Ids}
NoId == 0

\* the Unix time (seconds) carried by the messages with a numeric timestamp,
\* and the times datetime.now() may return while one of them is handled:
\* the same second, exactly 5 minutes later, one second more than that
MessageTimes == {1000}
BaseTime == CHOOSE x \in MessageTimes : TRUE
Nows == {BaseTime, BaseTime + 300, BaseTime + 301}

\* timedelta(minutes=5), in seconds
StaleWindow == 5 * 60

\* faulty variant: the difference is taken the wrong way round
IsStaleReversed(now, then) == then - now > StaleWindow

\* time_diff > timedelta(minutes=5)
IsStale(now, then) == now - then > StaleWindow

(***************************************************************************)
(* The directory client.  A DirResponse is what requests.post(...) and     *)
(* response.json() produce: "raise" (requests.post raises: network         *)
(* failure, timeout), "json" (the body is a JSON object with the keys in   *)
(* `keys`), "list" (the body is JSON but a non-empty array, not an         *)
(* object), "text" (the body is not JSON).                                 *)
(***************************************************************************)
Bob == <<"B","o","b">>
There == <<"t","h","e","r","e">>

JsonObject(keys, status, user_found, name) ==
    [kind |-> "json", keys |-> keys, status |-> status,
     user_found |-> user_found, name |-> name]

DirResponses ==
    { JsonObject({"status", "user_found", "name"}, "success", TRUE, Bob),
      JsonObject({"status", "user_found"}, "success", TRUE, <<>>),
      JsonObject({"status", "user_found"}, "success", FALSE, <<>>),
      JsonObject({"status"}, "success", FALSE, <<>>),
      JsonObject({"status"}, "error", FALSE, <<>>),
      JsonObject({}, "", FALSE, <<>>),
      [kind |-> "raise", keys |-> {}, status |-> "", user_found |-> FALSE,
       name |-> <<>>],
      [kind |-> "list", keys |-> {}, status |-> "", user_found |-> FALSE,
       name |-> <<>>],
      [kind |-> "text", keys |-> {}, status |-> "", user_found |-> FALSE,
       name |-> <<>>] }

\* what a directory function returns: a dict (with its keys) or a list
NoResult ==
    [kind |-> "none", keys |-> {}, status |-> "", user_found |-> FALSE,
     name |-> <<>>]
ErrorResult ==
    [kind |-> "dict", keys |-> {"status", "message"}, status |-> "error",
     user_found |-> FALSE, name |-> <<>>]
TextResult ==
    [kind |-> "dict", keys |-> {"status", "message"}, status |-> "success",
     user_found |-> FALSE, name |-> <<>>]

\* faulty variant: without the outer try an exception of requests.post
\* leaves the function
SheetCallNoCatch(resp) ==
    CASE resp.kind = "text"  -> TextResult
      [] resp.kind = "json"  -> [resp EXCEPT !.kind = "dict"]
      [] OTHER               -> resp

\* the try/except of register_user_in_sheet and find_user_in_sheet
SheetCall(resp) ==
    CASE resp.kind = "raise" -> ErrorResult
      [] resp.kind = "text"  -> TextResult
      [] resp.kind = "json"  -> [resp EXCEPT !.kind = "dict"]
      [] OTHER               -> resp

register_user_in_sheet(resp) == SheetCall(resp)

find_user_in_sheet(resp) == SheetCall(resp)

\* bool(d) of a returned value: an empty dict is falsy
Truthy(r) == IF r.kind = "dict" THEN r.keys # {} ELSE r.kind = "list"

\* d.get("status") == "success"
StatusIsSuccess(r) == "status" \in r.keys /\ r.status = "success"

\* d.get("user_found")
UserFound(r) == "user_found" \in r.keys /\ r.user_found

\* faulty variant: the name is read under a key the directory does not send
UserNameWrongKey(r) == There

\* d.get("name", "there")
UserName(r) == IF "name" \in r.keys THEN r.name ELSE There

\* evaluating `r and r.get(...)` raises AttributeError on a list
GetRaises(r) == r.kind = "list"

(***************************************************************************)
(* Outbound texts: the template and the value substituted into it.         *)
(***************************************************************************)
Text(template, arg) == [template |-> template, arg |-> arg]

NoText == Text("none", <<>>)

\* f"Thank you, {name}! You have been registered successfully."
RegisteredText(name) == Text("registered", name)

\* "Sorry, there was a problem registering you. Please try again later."
RegisterFailedText == Text("register_failed", <<>>)

\* f"Hello {user_name}! Welcome back. How can I help you today?"
WelcomeBackText(user_name) == Text("welcome_back", user_name)

\* the five lines generate_response returns as ONE string joined by "\n"
OnboardingLines ==
    << "Hello and welcome!",
       "I'm Jawhar, your friendly recycling assistant.",
       "Whether you are unsure about what to recycle, where to take items, or how to reduce waste I'm here to make it easy.",
       "I noticed you haven't registered yet - no worries! It's quick and easy.",
       "To get registered reply with your name." >>

OnboardingText == Text("onboarding", OnboardingLines)

\* the acknowledgments of the non-text branches of process_message
AckText(message_type) ==
    CASE message_type = "image"    -> Text("image_unavailable", <<>>)
      [] message_type = "document" -> Text("document_unavailable", <<>>)
      [] OTHER                     -> Text("received", <<message_type>>)

\* what the platform answers to the POST of send_response
SendResponses == {"200", "400", "raise"}

\* faulty variant: every answer of the API counts as sent
send_response_any_answer(resp) == resp # "raise"

\* send_response returns True exactly on status code 200
send_response(resp) == resp = "200"

(***************************************************************************)
(* State.                                                                  *)
(*   processed_messages     the module-level set of handled message ids    *)
(*   pending_registrations  the senders whose entry in the dict is True    *)
(* per request thread t (one call of process_message at a time):           *)
(*   pc[t]            position in process_message / generate_response      *)
(*   message_id[t]    id of the message being (or last) handled            *)
(*   current_time[t]  datetime.now() as read by the staleness check (0:    *)
(*                    not read)                                            *)
(*   result[t]        value returned by the directory function             *)
(*   response[t]      text about to be passed to send_response             *)
(* observation of the current (or last) handling by thread t:              *)
(*   sends[t]         the send_response calls made, in order               *)
(*   calls[t]         the directory calls made, in order                   *)
(*   pre[t]           the shared state when the message was delivered      *)
(*   outcome[t]       how the handling ended                               *)
(* observation over the whole run:                                         *)
(*   watch            one message id, fixed at the start, whose handlings  *)
(*                    are counted (NoId: none is counted)                  *)
(*   delivered, sent, registered                                           *)
(*                    deliveries of, send_response calls for and register  *)
(*                    calls for the watched id                             *)
(*   forgotten        "no" until a clear drops the watched id from the     *)
(*                    cache; then "own" if the handling of the watched     *)
(*                    message itself cleared the cache, "later" if the     *)
(*                    handling of a later message did                      *)
(*   failed           senders whose latest text ended in a failed          *)
(*                    registration                                         *)
(*   attempts[s]      register calls made for sender s since s last        *)
(*                    entered pending_registrations (counted only where    *)
(*                    the threads interleave)                              *)
(***************************************************************************)
VARIABLES processed_messages, pending_registrations,
          pc, message_id, current_time, result, response,
          sends, calls, pre, outcome,
          watch, delivered, sent, registered, forgotten, failed,
          request, call, attempts

shared == <<processed_messages, pending_registrations>>
locals == <<pc, message_id, current_time, result, response>>
observed == <<sends, calls, pre, outcome>>
counted == <<watch, delivered, sent, registered, forgotten, failed>>
direct == <<request, call, attempts>>
vars == <<shared, locals, observed, counted, direct>>

Threads == {1, 2}

\* MAX_PROCESSED_MESSAGES of the program, scaled to the model
MAX_PROCESSED_MESSAGES == MaxCache

Message(t) == Catalog[message_id[t]]

\* a thread that is serving no POST /webhook
NoRequest ==
    [state |-> "none", data |-> 0, entry |-> 0, change |-> 0, message |-> 0,
     handed |-> <<>>, returned |-> <<>>, status |-> 0, body |-> "none"]

\* no function has been called directly
NoCall == [fn |-> "none"]

InitState ==
    /\ request = [t \in Threads |-> NoRequest]
    /\ call = NoCall
    /\ attempts = [s \in Senders |-> 0]
    /\ processed_messages = {}
    /\ pending_registrations = {}
    /\ pc = [t \in Threads |-> "idle"]
    /\ message_id = [t \in Threads |-> NoId]
    /\ current_time = [t \in Threads |-> 0]
    /\ result = [t \in Threads |-> NoResult]
    /\ response = [t \in Threads |-> NoText]
    /\ sends = [t \in Threads |-> <<>>]
    /\ calls = [t \in Threads |-> <<>>]
    /\ pre = [t \in Threads |-> [cache |-> {}, pending |-> {}, failed |-> {}]]
    /\ outcome = [t \in Threads |-> "none"]
    /\ delivered = 0
    /\ sent = 0
    /\ registered = 0
    /\ forgotten = "no"
    /\ failed = {}

\* the server after start-up; no message id is watched
Init == InitState /\ watch = NoId

\* pending_registrations.get(from_number)
IsPending(t) == Message(t).from \in pending_registrations

\* process_message returns (or its except clause has logged the exception)
Return(t, how) ==
    /\ pc' = [pc EXCEPT ![t] = "idle"]
    /\ outcome' = [outcome EXCEPT ![t] = how]

\* receive_message hands message m to process_message on thread t
Deliver(t, m) ==
    /\ pc[t] = "idle"
    /\ m = watch => delivered < MaxDeliver
    /\ delivered' = IF m = watch THEN delivered + 1 ELSE delivered
    /\ pc' = [pc EXCEPT ![t] = "dedup"]
    /\ message_id' = [message_id EXCEPT ![t] = m]
    /\ current_time' = [current_time EXCEPT ![t] = 0]
    /\ result' = [result EXCEPT ![t] = NoResult]
    /\ response' = [response EXCEPT ![t] = NoText]
    /\ sends' = [sends EXCEPT ![t] = <<>>]
    /\ calls' = [calls EXCEPT ![t] = <<>>]
    /\ pre' = [pre EXCEPT ![t] = [cache |-> processed_messages,
                                  pending |-> pending_registrations,
                                  failed |-> failed]]
    /\ outcome' = [outcome EXCEPT ![t] = "running"]
    /\ UNCHANGED <<shared, watch, sent, registered, forgotten, failed>>

\* faulty variants: only text messages are deduplicated; the duplicates of a sender
\* who is awaiting a name are let through
AlreadyProcessedTextOnly(t) ==
    Message(t).type = "text" /\ message_id[t] \in processed_messages

AlreadyProcessedUnlessPending(t) ==
    message_id[t] \in processed_messages /\ ~IsPending(t)

\* faulty variant: the check also sees the ids that another thread has
\* checked and not yet marked, as under a lock around check and mark
AlreadyProcessedOrClaimed(t) ==
    \/ message_id[t] \in processed_messages
    \/ \E u \in Threads \ {t} :
          message_id[u] = message_id[t] /\ pc[u] \in {"stale", "mark"}

\* if message_id in processed_messages: return
AlreadyProcessed(t) == message_id[t] \in processed_messages

CheckDuplicate(t) ==
    /\ pc[t] = "dedup"
    /\ IF AlreadyProcessed(t)
       THEN Return(t, "duplicate")
       ELSE /\ pc' = [pc EXCEPT ![t] = "stale"]
            /\ UNCHANGED outcome
    /\ UNCHANGED <<shared, message_id, current_time, result, response,
                   sends, calls, pre, counted>>

\* datetime.fromtimestamp(int(timestamp)) of a numeric timestamp
message_time == BaseTime

\* the staleness check: int(timestamp) and fromtimestamp may raise;
\* ValueError and TypeError are caught by the inner except and the message
\* proceeds, any other exception reaches the except of process_message
CheckStale(t, now) ==
    /\ pc[t] = "stale"
    /\ CASE Message(t).timestamp = "unparseable" ->
              /\ pc' = [pc EXCEPT ![t] = "mark"]
              /\ UNCHANGED <<processed_messages, current_time, outcome>>
         [] Message(t).timestamp = "overflow" ->
              /\ Return(t, "error")
              /\ UNCHANGED <<processed_messages, current_time>>
         [] OTHER ->
              /\ current_time' = [current_time EXCEPT ![t] = now]
              /\ IF IsStale(now, message_time)
                 THEN /\ processed_messages' =
                             processed_messages \cup {message_id[t]}
                      /\ Return(t, "stale")
                 ELSE /\ pc' = [pc EXCEPT ![t] = "mark"]
                      /\ UNCHANGED <<processed_messages, outcome>>
    /\ UNCHANGED <<pending_registrations, message_id, result, response,
                   sends, calls, pre, counted>>

\* processed_messages.add(message_id)
Mark(t) ==
    /\ pc[t] = "mark"
    /\ processed_messages' = processed_messages \cup {message_id[t]}
    /\ pc' = [pc EXCEPT ![t] = "cleanup"]
    /\ UNCHANGED <<pending_registrations, message_id, current_time, result,
                   response, observed, counted>>

\* if len(processed_messages) > MAX_PROCESSED_MESSAGES: clear()
TooLarge == Cardinality(processed_messages) > MAX_PROCESSED_MESSAGES

Cleanup(t) ==
    /\ pc[t] = "cleanup"
    /\ IF TooLarge
       THEN /\ processed_messages' = {}
            /\ forgotten' = IF forgotten = "no" /\ watch \in processed_messages
                            THEN IF message_id[t] = watch THEN "own"
                                                          ELSE "later"
                            ELSE forgotten
       ELSE UNCHANGED <<processed_messages, forgotten>>
    /\ pc' = [pc EXCEPT ![t] = "dispatch"]
    /\ UNCHANGED <<pending_registrations, message_id, current_time, result,
                   response, observed, watch, delivered, sent, registered,
                   failed>>

\* faulty variant: the name is taken from the lower-cased message
CandidateNameLower(t) == Strip(Lower(Message(t).body))

\* name = user_message.strip()
CandidateName(t) == Strip(Message(t).body)

\* faulty variant: a text that matches no keyword is looked up like a greeting
TextBranchDefaultFind(t) ==
    IF IsPending(t) THEN "register" ELSE "find"

\* faulty variant: the greeting match is tried before the pending flag
TextBranchGreetingFirst(t) ==
    IF IsGreeting(Message(t).body) THEN "find"
    ELSE IF IsPending(t) THEN "register"
    ELSE "none"

\* the branch generate_response takes for a text: the registration of a
\* pending sender, the lookup for a greeting, or `return None`
TextBranch(t) ==
    IF IsPending(t) THEN "register"
    ELSE IF IsGreeting(Message(t).body) THEN "find"
    ELSE "none"

\* faulty variant: every message is passed to generate_response, a message
\* without a text with the body ''
DispatchAllAsText(t) ==
    /\ pc[t] = "dispatch"
    /\ failed' = failed \ {Message(t).from}
    /\ UNCHANGED response
    /\ IF TextBranch(t) = "none"
       THEN Return(t, "noreply")
       ELSE /\ pc' = [pc EXCEPT ![t] = TextBranch(t)]
            /\ UNCHANGED outcome
    /\ UNCHANGED <<shared, message_id, current_time, result, sends, calls,
                   pre, watch, delivered, sent, registered, forgotten>>

\* the type branches of process_message and, for a text, the entry of
\* generate_response: the pending check and the greeting match
Dispatch(t) ==
    /\ pc[t] = "dispatch"
    /\ IF Message(t).type = "text"
       THEN /\ failed' = failed \ {Message(t).from}
            /\ UNCHANGED response
            /\ IF TextBranch(t) = "none"
               THEN Return(t, "noreply")
               ELSE /\ pc' = [pc EXCEPT ![t] = TextBranch(t)]
                    /\ UNCHANGED outcome
       ELSE /\ response' = [response EXCEPT ![t] = AckText(Message(t).type)]
            /\ pc' = [pc EXCEPT ![t] = "send"]
            /\ UNCHANGED <<outcome, failed>>
    /\ UNCHANGED <<shared, message_id, current_time, result, sends, calls,
                   pre, watch, delivered, sent, registered, forgotten>>

DirCall(action, phone, name) ==
    [action |-> action, phone |-> phone, name |-> name]

\* reg_result = register_user_in_sheet(from_number, name)
RegisterCall(t, resp) ==
    /\ pc[t] = "register"
    /\ calls' = [calls EXCEPT ![t] =
                    Append(@, DirCall("register", Message(t).from,
                                      CandidateName(t)))]
    /\ result' = [result EXCEPT ![t] = register_user_in_sheet(resp)]
    /\ registered' = IF message_id[t] = watch THEN registered + 1
                                               ELSE registered
    /\ pc' = [pc EXCEPT ![t] = "pop"]
    /\ UNCHANGED <<shared, message_id, current_time, response, sends, pre,
                   outcome, watch, delivered, sent, forgotten, failed>>

\* reg_result and reg_result.get("status") == "success"
RegisterSucceeded(r) == Truthy(r) /\ StatusIsSuccess(r)

\* faulty variant: the flag is kept when the registration failed (the sender may
\* retry)
PopPendingOnSuccess(t) ==
    IF RegisterSucceeded(result[t])
    THEN pending_registrations \ {Message(t).from}
    ELSE pending_registrations

\* pending_registrations.pop(from_number, None)
PopPending(t) == pending_registrations \ {Message(t).from}

\* the pop, then the text generate_response returns
RegisterDone(t) ==
    /\ pc[t] = "pop"
    /\ pending_registrations' = PopPending(t)
    /\ CASE GetRaises(result[t]) ->
              /\ Return(t, "error")
              /\ UNCHANGED <<response, failed>>
         [] ~GetRaises(result[t]) /\ RegisterSucceeded(result[t]) ->
              /\ response' = [response EXCEPT ![t] =
                                 RegisteredText(CandidateName(t))]
              /\ pc' = [pc EXCEPT ![t] = "send"]
              /\ UNCHANGED <<outcome, failed>>
         [] OTHER ->
              /\ response' = [response EXCEPT ![t] = RegisterFailedText]
              /\ failed' = failed \cup {Message(t).from}
              /\ pc' = [pc EXCEPT ![t] = "send"]
              /\ UNCHANGED outcome
    /\ UNCHANGED <<processed_messages, message_id, current_time, result,
                   sends, calls, pre, watch, delivered, sent, registered,
                   forgotten>>

\* user_result = find_user_in_sheet(from_number)
FindCall(t, resp) ==
    /\ pc[t] = "find"
    /\ calls' = [calls EXCEPT ![t] =
                    Append(@, DirCall("find", Message(t).from, <<>>))]
    /\ result' = [result EXCEPT ![t] = find_user_in_sheet(resp)]
    /\ pc' = [pc EXCEPT ![t] = "found"]
    /\ UNCHANGED <<shared, message_id, current_time, response, sends, pre,
                   outcome, counted>>

\* faulty variant: a lookup with status "success" counts as found
IsRegisteredOnSuccess(r) == Truthy(r) /\ StatusIsSuccess(r)

\* user_result and user_result.get("status") == "success"
\*             and user_result.get("user_found")
IsRegistered(r) == Truthy(r) /\ StatusIsSuccess(r) /\ UserFound(r)

\* the welcome-back text, or the pending flag and the onboarding text
FindDone(t) ==
    /\ pc[t] = "found"
    /\ CASE GetRaises(result[t]) ->
              /\ Return(t, "error")
              /\ UNCHANGED <<response, pending_registrations>>
         [] ~GetRaises(result[t]) /\ IsRegistered(result[t]) ->
              /\ response' = [response EXCEPT ![t] =
                                 WelcomeBackText(UserName(result[t]))]
              /\ pc' = [pc EXCEPT ![t] = "send"]
              /\ UNCHANGED <<outcome, pending_registrations>>
         [] OTHER ->
              /\ pending_registrations' =
                     pending_registrations \cup {Message(t).from}
              /\ response' = [response EXCEPT ![t] = OnboardingText]
              /\ pc' = [pc EXCEPT ![t] = "send"]
              /\ UNCHANGED outcome
    /\ UNCHANGED <<processed_messages, message_id, current_time, result,
                   sends, calls, pre, counted>>

\* send_response(from_number, response_result), and process_message returns
Send(t, resp) ==
    /\ pc[t] = "send"
    /\ sends' = [sends EXCEPT ![t] =
                    Append(@, [to |-> Message(t).from, body |-> response[t],
                               ok |-> send_response(resp)])]
    /\ sent' = IF message_id[t] = watch THEN sent + 1 ELSE sent
    /\ Return(t, "sent")
    /\ UNCHANGED <<shared, message_id, current_time, result, response,
                   calls, pre, watch, delivered, registered, forgotten,
                   failed>>

(***************************************************************************)
(* The specification: deliveries are handled one after another, each by    *)
(* process_message run to its return on the one request thread.            *)
(***************************************************************************)
MainThread == CHOOSE t \in Threads : \A u \in Threads : t <= u

Next ==
    \/ \E m \in Ids : Deliver(MainThread, m) /\ UNCHANGED direct
    \/ CheckDuplicate(MainThread) /\ UNCHANGED direct
    \/ \E now \in Nows : CheckStale(MainThread, now) /\ UNCHANGED direct
    \/ Mark(MainThread) /\ UNCHANGED direct
    \/ Cleanup(MainThread) /\ UNCHANGED direct
    \/ Dispatch(MainThread) /\ UNCHANGED direct
    \/ \E resp \in DirResponses :
          RegisterCall(MainThread, resp) /\ UNCHANGED direct
    \/ RegisterDone(MainThread) /\ UNCHANGED direct
    \/ \E resp \in DirResponses :
          FindCall(MainThread, resp) /\ UNCHANGED direct
    \/ FindDone(MainThread) /\ UNCHANGED direct
    \/ \E resp \in SendResponses : Send(MainThread, resp) /\ UNCHANGED direct

Spec == Init /\ [][Next]_vars

(***************************************************************************)
(* The same server with the handlings of one message id counted.  The      *)
(* deliveries are those of the first MaxCache + 2 messages of the catalog  *)
(* (sender s1: a greeting, a name, an unrelated text, an image, ...),      *)
(* enough to fill and clear the cache around the watched id.               *)
(***************************************************************************)
WatchedIds == {m \in Ids : m <= MaxCache + 2}

InitWatch == InitState /\ watch \in WatchedIds

NextWatch ==
    \/ \E m \in WatchedIds : Deliver(MainThread, m) /\ UNCHANGED direct
    \/ CheckDuplicate(MainThread) /\ UNCHANGED direct
    \/ \E now \in Nows : CheckStale(MainThread, now) /\ UNCHANGED direct
    \/ Mark(MainThread) /\ UNCHANGED direct
    \/ Cleanup(MainThread) /\ UNCHANGED direct
    \/ Dispatch(MainThread) /\ UNCHANGED direct
    \/ \E resp \in DirResponses :
          RegisterCall(MainThread, resp) /\ UNCHANGED direct
    \/ RegisterDone(MainThread) /\ UNCHANGED direct
    \/ \E resp \in DirResponses :
          FindCall(MainThread, resp) /\ UNCHANGED direct
    \/ FindDone(MainThread) /\ UNCHANGED direct
    \/ \E resp \in SendResponses : Send(MainThread, resp) /\ UNCHANGED direct

SpecWatch == InitWatch /\ [][NextWatch]_vars

(***************************************************************************)
(* POST /webhook: receive_message walks the entries, the changes of each   *)
(* entry and the messages of each change, and hands every message to       *)
(* process_message before it goes on.                                      *)
(***************************************************************************)
\* one element of a "changes" list; messages is what
\* change.get('value', {}).get('messages') gives, <<>> when it is missing
Change(messages) == [messages |-> messages]

\* one element of the "entry" list; is_dict is false for an element that is
\* not an object, so that entry.get raises
Entry(is_dict, changes) == [is_dict |-> is_dict, changes |-> changes]

\* what request.get_json() gives; json is false when there is no JSON body
Body(json, object, entry) ==
    [json |-> json, object |-> object, entry |-> entry]

Payloads ==
    << Body(FALSE, "none", <<>>),
       Body(TRUE, "page", << Entry(TRUE, << Change(<<1>>) >>) >>),
       Body(TRUE, "whatsapp_business_account",
            << Entry(TRUE, << Change(<<9, 1>>), Change(<<>>) >>),
               Entry(TRUE, << Change(<<4>>) >>) >>),
       Body(TRUE, "whatsapp_business_account",
            << Entry(TRUE, << Change(<<1>>) >>),
               Entry(FALSE, <<>>),
               Entry(TRUE, << Change(<<4>>) >>) >>),
       Body(TRUE, "whatsapp_business_account",
            << Entry(TRUE, << Change(<<2>>) >>) >>) >>

\* faulty variants: the except clause answers 500; only the first message
\* of a change is handled
WebhookReplyError(raised) ==
    IF raised THEN [status |-> 500, body |-> "error"]
              ELSE [status |-> 200, body |-> "ok"]

MessagesOfChangeFirstOnly(change) ==
    IF change.messages = <<>> THEN <<>> ELSE <<Head(change.messages)>>

\* make_response(jsonify({"status": "ok"}), 200), at the end of the try and
\* in the except clause
WebhookReply(raised) == [status |-> 200, body |-> "ok"]

\* for message in change['value']['messages']
MessagesOfChange(change) == change.messages

Data(t) == Payloads[request[t].data]

\* if 'object' in data and data['object'] == 'whatsapp_business_account'
IsWhatsApp(data) == data.object = "whatsapp_business_account"

Serving(t) == request[t].state = "open" /\ pc[t] = "idle"

\* the loops stand at an entry, at a change of it, at a message of it
AtEntry(t) ==
    /\ Data(t).json
    /\ IsWhatsApp(Data(t))
    /\ request[t].entry <= Len(Data(t).entry)

TheEntry(t) == Data(t).entry[request[t].entry]

AtChange(t) ==
    /\ AtEntry(t)
    /\ TheEntry(t).is_dict
    /\ request[t].change <= Len(TheEntry(t).changes)

TheChange(t) == TheEntry(t).changes[request[t].change]

AtMessage(t) ==
    /\ AtChange(t)
    /\ request[t].message <= Len(MessagesOfChange(TheChange(t)))

\* 'object' in None, or entry.get of something that is not an object
Raises(t) == ~Data(t).json \/ (AtEntry(t) /\ ~TheEntry(t).is_dict)

\* the outcomes of the calls of process_message that have returned
Returned(t) ==
    IF Len(request[t].returned) < Len(request[t].handed)
    THEN Append(request[t].returned, outcome[t])
    ELSE request[t].returned

\* a POST /webhook arrives with body Payloads[d]
Post(t, d) ==
    /\ pc[t] = "idle"
    /\ request[t].state # "open"
    /\ request' = [request EXCEPT ![t] =
                      [NoRequest EXCEPT !.state = "open", !.data = d,
                                        !.entry = 1, !.change = 1,
                                        !.message = 1]]
    /\ UNCHANGED <<shared, locals, observed, counted, call, attempts>>

\* process_message(message)
HandOver(t) ==
    /\ Serving(t)
    /\ AtMessage(t)
    /\ Deliver(t, MessagesOfChange(TheChange(t))[request[t].message])
    /\ request' = [request EXCEPT
                      ![t].message = @ + 1,
                      ![t].handed = Append(@,
                          MessagesOfChange(TheChange(t))[request[t].message]),
                      ![t].returned = Returned(t)]
    /\ UNCHANGED <<call, attempts>>

\* the messages of the change are exhausted, or it has none
NextChange(t) ==
    /\ Serving(t)
    /\ AtChange(t)
    /\ ~AtMessage(t)
    /\ request' = [request EXCEPT ![t].change = @ + 1, ![t].message = 1]
    /\ UNCHANGED <<shared, locals, observed, counted, call, attempts>>

\* the changes of the entry are exhausted
NextEntry(t) ==
    /\ Serving(t)
    /\ AtEntry(t)
    /\ TheEntry(t).is_dict
    /\ ~AtChange(t)
    /\ request' = [request EXCEPT ![t].entry = @ + 1, ![t].change = 1,
                                  ![t].message = 1]
    /\ UNCHANGED <<shared, locals, observed, counted, call, attempts>>

\* the return at the end of the try, or the one of the except clause
Respond(t) ==
    /\ Serving(t)
    /\ Raises(t) \/ ~AtEntry(t)
    /\ request' = [request EXCEPT
                      ![t].state = "closed",
                      ![t].returned = Returned(t),
                      ![t].status = WebhookReply(Raises(t)).status,
                      ![t].body = WebhookReply(Raises(t)).body]
    /\ UNCHANGED <<shared, locals, observed, counted, call, attempts>>

NextWebhook ==
    \/ \E d \in DOMAIN Payloads : Post(MainThread, d)
    \/ HandOver(MainThread)
    \/ NextChange(MainThread)
    \/ NextEntry(MainThread)
    \/ Respond(MainThread)
    \/ CheckDuplicate(MainThread) /\ UNCHANGED direct
    \/ \E now \in Nows : CheckStale(MainThread, now) /\ UNCHANGED direct
    \/ Mark(MainThread) /\ UNCHANGED direct
    \/ Cleanup(MainThread) /\ UNCHANGED direct
    \/ Dispatch(MainThread) /\ UNCHANGED direct
    \/ \E resp \in DirResponses :
          RegisterCall(MainThread, resp) /\ UNCHANGED direct
    \/ RegisterDone(MainThread) /\ UNCHANGED direct
    \/ \E resp \in DirResponses :
          FindCall(MainThread, resp) /\ UNCHANGED direct
    \/ FindDone(MainThread) /\ UNCHANGED direct
    \/ \E resp \in SendResponses : Send(MainThread, resp) /\ UNCHANGED direct

SpecWebhook == Init /\ [][NextWebhook]_vars

(***************************************************************************)
(* The functions called on their own: GET /webhook (verify_webhook), the   *)
(* four directory functions, send_response with the credentials of the    *)
(* environment, and handle_new_user_welcome.  call holds the last call:   *)
(* its arguments and what it returned.                                     *)
(***************************************************************************)
\* os.getenv('WEBHOOK_VERIFY_TOKEN', 'samidi')
WEBHOOK_VERIFY_TOKEN == "samidi"

\* request.args.get gives None for a parameter that is absent
Absent == "absent"
Modes == {"subscribe", "SUBSCRIBE", "unsubscribe", Absent}
Tokens == {WEBHOOK_VERIFY_TOKEN, "wrong", Absent}
Challenges == {"c1", "c2", Absent}

\* faulty variant: the mode is not compared
verify_webhook_token_only(mode, token, challenge) ==
    IF token = WEBHOOK_VERIFY_TOKEN
    THEN [status |-> 200, body |-> challenge]
    ELSE [status |-> 403, body |-> "Forbidden"]

\* the view returns the challenge, or ('Forbidden', 403); a view that
\* returns None (no hub.challenge) is answered 500 by Flask
verify_webhook(mode, token, challenge) ==
    IF mode = "subscribe" /\ token = WEBHOOK_VERIFY_TOKEN
    THEN IF challenge = Absent
         THEN [status |-> 500, body |-> "Internal Server Error"]
         ELSE [status |-> 200, body |-> challenge]
    ELSE [status |-> 403, body |-> "Forbidden"]

\* the direct calls wait while handle_new_user_welcome runs
WelcomeRunning == call.fn = "welcome" /\ call.at # "done"

VerifyWebhook(mode, token, challenge) ==
    /\ ~WelcomeRunning
    /\ call' = [fn |-> "verify", mode |-> mode, token |-> token,
                challenge |-> challenge,
                reply |-> verify_webhook(mode, token, challenge)]
    /\ UNCHANGED <<shared, locals, observed, counted, request, attempts>>

\* {"status": "error", "message": "Invalid response format"}
InvalidFormatResult ==
    [kind |-> "dict", keys |-> {"status", "message"}, status |-> "error",
     user_found |-> FALSE, name |-> <<>>]

\* the try/except of check_balance_in_sheet and update_points_in_sheet
SheetCallStrict(resp) ==
    CASE resp.kind = "raise" -> ErrorResult
      [] resp.kind = "text"  -> InvalidFormatResult
      [] resp.kind = "json"  -> [resp EXCEPT !.kind = "dict"]
      [] OTHER               -> resp

check_balance_in_sheet(resp) == SheetCallStrict(resp)

update_points_in_sheet(resp) == SheetCallStrict(resp)

DirectoryOps == {"find", "register", "check_balance", "update_points"}

\* response.status_code, which none of the four functions reads
StatusCodes == {200, 404, 500}

\* what the directory answers: no answer at all (requests.post raises), or
\* a status code with a body
DirAnswers ==
    { [code |-> c, resp |-> r] :
         c \in StatusCodes, r \in {x \in DirResponses : x.kind # "raise"} }
    \cup { [code |-> 0, resp |-> r] :
              r \in {x \in DirResponses : x.kind = "raise"} }

DirectoryResult(op, answer) ==
    CASE op = "find"          -> find_user_in_sheet(answer.resp)
      [] op = "register"      -> register_user_in_sheet(answer.resp)
      [] op = "check_balance" -> check_balance_in_sheet(answer.resp)
      [] OTHER                -> update_points_in_sheet(answer.resp)

CallDirectory(op, answer) ==
    /\ ~WelcomeRunning
    /\ call' = [fn |-> "directory", op |-> op, answer |-> answer,
                result |-> DirectoryResult(op, answer)]
    /\ UNCHANGED <<shared, locals, observed, counted, request, attempts>>

\* os.getenv('WHATSAPP_API_TOKEN'), os.getenv('WHATSAPP_PHONE_NUMBER_ID')
AccessTokens == {"unset", "empty", "set"}
PhoneNumberIds == {"unset", "set"}

\* what the WhatsApp API answers to the one requests.post
SendAnswers == SendResponses \cup {"201", "500"}

\* send_response from its entry: without a token access_token[:6] raises
\* and the except clause returns False; an empty token or no phone number
\* id returns False at line 195; otherwise one request is posted
SendAttempt(access_token, phone_number_id, resp) ==
    IF access_token # "set" \/ phone_number_id # "set"
    THEN [requests |-> 0, returned |-> FALSE]
    ELSE [requests |-> 1, returned |-> send_response(resp)]

CallSend(to, access_token, phone_number_id, resp) ==
    /\ ~WelcomeRunning
    /\ call' = [fn |-> "send", to |-> to, access_token |-> access_token,
                phone_number_id |-> phone_number_id, answer |-> resp,
                attempt |-> SendAttempt(access_token, phone_number_id, resp)]
    /\ UNCHANGED <<shared, locals, observed, counted, request, attempts>>

\* the list messages of handle_new_user_welcome
WelcomeMessages ==
    <<"hello_and_welcome", "i_am_jawhar", "here_to_make_it_easy",
      "not_registered_yet", "reply_with_your_name">>

\* faulty variant: the loop is left at the first send that fails
NextIndexUntilFailure(index, ok) ==
    IF ok THEN index + 1 ELSE Len(WelcomeMessages) + 1

\* for message in messages: the result of send_response is not looked at
NextIndex(index, ok) == index + 1

\* handle_new_user_welcome(from_number) is entered
WelcomeStart(to) ==
    /\ ~WelcomeRunning
    /\ call' = [fn |-> "welcome", to |-> to, index |-> 1, log |-> <<>>,
                at |-> "loop"]
    /\ UNCHANGED <<shared, locals, observed, counted, request, attempts>>

\* send_response(from_number, message) is called
WelcomeSubmit ==
    /\ WelcomeRunning
    /\ call.at = "loop"
    /\ call.index <= Len(WelcomeMessages)
    /\ call' = [call EXCEPT
                   !.log = Append(@, [to |-> call.to,
                                      body |-> WelcomeMessages[call.index],
                                      returned |-> FALSE, ok |-> FALSE]),
                   !.at = "sending"]
    /\ UNCHANGED <<shared, locals, observed, counted, request, attempts>>

\* send_response returns, then time.sleep(0.5)
WelcomeReturn(access_token, phone_number_id, resp) ==
    /\ WelcomeRunning
    /\ call.at = "sending"
    /\ call' = [call EXCEPT
                   !.log[Len(call.log)].returned = TRUE,
                   !.log[Len(call.log)].ok =
                       SendAttempt(access_token, phone_number_id,
                                   resp).returned,
                   !.index = NextIndex(call.index,
                       SendAttempt(access_token, phone_number_id,
                                   resp).returned),
                   !.at = "loop"]
    /\ UNCHANGED <<shared, locals, observed, counted, request, attempts>>

\* return None
WelcomeEnd ==
    /\ WelcomeRunning
    /\ call.at = "loop"
    /\ call.index > Len(WelcomeMessages)
    /\ call' = [call EXCEPT !.at = "done"]
    /\ UNCHANGED <<shared, locals, observed, counted, request, attempts>>

\* the texts the greeting test of generate_response is tried on: keywords
\* in upper and lower case, inside a sentence, inside a longer word, with
\* white space around and inside them, and texts without a keyword
GreetingTexts ==
    { <<"H","i"," ">>,
      <<"t","h","i","s">>,
      <<"o","h"," ","H","e","l","l","o"," ","t","h","e","r","e">>,
      <<"H","E","Y">>,
      <<"G","o","o","d"," ","M","o","r","n","i","n","g">>,
      <<"g","o","o","d"," "," ","m","o","r","n","i","n","g">>,
      <<"o","k">>,
      <<"h"," ","i">>,
      <<"S","a","l","a","m","!">>,
      <<"M","A","R","H","A","B","A">>,
      <<>>,
      <<" ","\n">>,
      <<"m","y"," ","b","a","l","a","n","c","e">>,
      <<"g","o","o","d"," ","e","v","e","n","i","n","g"," ","a","l","l">>,
      <<"\t","g","o","o","d"," ","a","f","t","e","r","n","o","o","n">>,
      <<"h","e","\n","y">>,
      <<"C","h","i","p","s">> }

\* lines 154 and 167-168 of generate_response on user_message
GreetingMatch(user_message) ==
    /\ ~WelcomeRunning
    /\ call' = [fn |-> "greeting", user_message |-> user_message,
                matched |-> IsGreeting(user_message)]
    /\ UNCHANGED <<shared, locals, observed, counted, request, attempts>>

WelcomeStep ==
    \/ WelcomeSubmit
    \/ \E access_token \in AccessTokens, phone_number_id \in PhoneNumberIds,
          resp \in SendAnswers :
          WelcomeReturn(access_token, phone_number_id, resp)
    \/ WelcomeEnd

NextCalls ==
    \/ \E mode \in Modes, token \in Tokens, challenge \in Challenges :
          VerifyWebhook(mode, token, challenge)
    \/ \E op \in DirectoryOps, answer \in DirAnswers :
          CallDirectory(op, answer)
    \/ \E to \in Senders, access_token \in AccessTokens,
          phone_number_id \in PhoneNumberIds, resp \in SendAnswers :
          CallSend(to, access_token, phone_number_id, resp)
    \/ \E to \in Senders : WelcomeStart(to)
    \/ WelcomeStep
    \/ \E user_message \in GreetingTexts : GreetingMatch(user_message)

SpecCalls == Init /\ [][NextCalls]_vars

\* handle_new_user_welcome is straight-line code: once entered it goes on
SpecCallsFair == SpecCalls /\ WF_vars(WelcomeStep)

(***************************************************************************)
(* The server with two request threads: the platform delivers the same     *)
(* message again while the first delivery is still being handled, and      *)
(* every step of one thread may fall between two steps of the other; the   *)
(* code takes no lock around processed_messages or pending_registrations.  *)
(* The deliveries are those of a greeting and of a name of sender s1, few  *)
(* enough that the cache is never cleared.                                 *)
(***************************************************************************)
RaceIds == {m \in Ids : m <= 2}

NextRace ==
    \/ \E t \in Threads, m \in RaceIds : Deliver(t, m) /\ UNCHANGED direct
    \/ \E t \in Threads : CheckDuplicate(t) /\ UNCHANGED direct
    \/ \E t \in Threads, now \in Nows :
          CheckStale(t, now) /\ UNCHANGED direct
    \/ \E t \in Threads : Mark(t) /\ UNCHANGED direct
    \/ \E t \in Threads : Cleanup(t) /\ UNCHANGED direct
    \/ \E t \in Threads : Dispatch(t) /\ UNCHANGED direct
    \/ \E t \in Threads, resp \in DirResponses :
          RegisterCall(t, resp) /\ UNCHANGED direct
    \/ \E t \in Threads : RegisterDone(t) /\ UNCHANGED direct
    \/ \E t \in Threads, resp \in DirResponses :
          FindCall(t, resp) /\ UNCHANGED direct
    \/ \E t \in Threads : FindDone(t) /\ UNCHANGED direct
    \/ \E t \in Threads, resp \in SendResponses :
          Send(t, resp) /\ UNCHANGED direct

SpecRace == Init /\ [][NextRace]_vars

(***************************************************************************)
(* The two request threads with the register calls counted per entry of a  *)
(* sender into pending_registrations.  The deliveries are the three texts  *)
(* of sender s1, each handed over while its id is not in the cache and     *)
(* handled within the 5 minutes: the greeting and the first text go to the *)
(* main thread, the second text to the other thread.                       *)
(***************************************************************************)
OneShotIds == {m \in Ids : Catalog[m].from = "s1" /\ Catalog[m].type = "text"}

\* the thread that receive_message runs on for message m
OneShotThread(m) ==
    IF m <= 2 THEN CHOOSE t \in Threads : \A u \in Threads : t <= u
              ELSE CHOOSE t \in Threads : \A u \in Threads : u <= t

OneShotDeliver(t, m) ==
    /\ t = OneShotThread(m)
    /\ m \notin processed_messages
    /\ Deliver(t, m)

\* register_user_in_sheet(from_number, name) is called once more for the
\* sender
CountedRegisterCall(t, resp) ==
    /\ RegisterCall(t, resp)
    /\ attempts' = [attempts EXCEPT ![Message(t).from] = @ + 1]
    /\ UNCHANGED <<request, call>>

\* pending_registrations[from_number] = True of a sender who was not in it
\* starts a new count
CountedFindDone(t) ==
    /\ FindDone(t)
    /\ attempts' =
          IF Message(t).from \in pending_registrations' \ pending_registrations
          THEN [attempts EXCEPT ![Message(t).from] = 0]
          ELSE attempts
    /\ UNCHANGED <<request, call>>

NextOneShot ==
    \/ \E t \in Threads, m \in OneShotIds :
          OneShotDeliver(t, m) /\ UNCHANGED direct
    \/ \E t \in Threads : CheckDuplicate(t) /\ UNCHANGED direct
    \/ \E t \in Threads, now \in {BaseTime} :
          CheckStale(t, now) /\ UNCHANGED direct
    \/ \E t \in Threads : Mark(t) /\ UNCHANGED direct
    \/ \E t \in Threads : Cleanup(t) /\ UNCHANGED direct
    \/ \E t \in Threads : Dispatch(t) /\ UNCHANGED direct
    \/ \E t \in Threads, resp \in DirResponses : CountedRegisterCall(t, resp)
    \/ \E t \in Threads : RegisterDone(t) /\ UNCHANGED direct
    \/ \E t \in Threads, resp \in DirResponses :
          FindCall(t, resp) /\ UNCHANGED direct
    \/ \E t \in Threads : CountedFindDone(t)
    \/ \E t \in Threads, resp \in SendResponses :
          Send(t, resp) /\ UNCHANGED direct

SpecOneShot == Init /\ [][NextOneShot]_vars

(***************************************************************************)
(* Vocabulary of the claims.                                               *)
(***************************************************************************)
T == MainThread

\* process_message has returned from handling a message
Handled == pc[T] = "idle" /\ message_id[T] # NoId

\* the message was delivered while its id was in the cache
WasDuplicate == message_id[T] \in pre[T].cache

\* the staleness check read a time more than 5 minutes after the timestamp
WasStale == current_time[T] - message_time > 300

\* a not-yet-seen message that passed the staleness filter
WasFresh ==
    /\ ~WasDuplicate
    /\ ~WasStale
    /\ Message(T).timestamp # "overflow"

Sender == Message(T).from

WasPending == Sender \in pre[T].pending

NothingSent == sends[T] = <<>>

NoDirectoryCall == calls[T] = <<>>

----------------------------------------------------------------------------
(* C1 as stated: delivering the same message id twice, the deliveries      *)
(* handled one after another with other messages in between, results in at *)
(* most one outbound send and at most one register call for that id.       *)
(* Stated for the runs in which the handling of the message did not itself *)
(* clear the cache, which is the case of C5.                               *)
C1_AtMostOnce ==
    (delivered <= 2 /\ forgotten # "own") =>
        (sent <= 1 /\ registered <= 1)

(* C1, amended: as long as no clear of the cache has dropped the id of the *)
(* message, all its deliveries together result in at most one outbound     *)
(* send and at most one register call.                                     *)
C1_AtMostOnceWhileResident ==
    forgotten = "no" => (sent <= 1 /\ registered <= 1)

\* the watched message was answered and registered once, and its second
\* delivery was dropped as a duplicate
C1_Witness ==
    /\ Handled /\ message_id[T] = watch
    /\ delivered = 2 /\ sent = 1 /\ registered = 1
    /\ forgotten = "no" /\ outcome[T] = "duplicate"

(* C2: a message delivered while its id is in processed_messages causes no *)
(* outbound send and no directory call, and leaves the dedup cache and     *)
(* every sender's pending flag as they were; process_message returns from  *)
(* the duplicate check.                                                    *)
C2_DuplicateIsNoOp ==
    (message_id[T] # NoId /\ WasDuplicate) =>
        /\ pc[T] \in {"dedup", "idle"}
        /\ NothingSent
        /\ NoDirectoryCall
        /\ processed_messages = pre[T].cache
        /\ pending_registrations = pre[T].pending

\* a duplicate of a greeting from a sender who is awaiting a name was dropped
C2_Witness ==
    /\ Handled /\ WasDuplicate /\ outcome[T] = "duplicate"
    /\ Message(T).type = "text" /\ WasPending

(* C3: a not-yet-seen message handled more than 5 minutes after its        *)
(* timestamp causes no outbound send, no directory call and no change of   *)
(* any pending flag, whatever its type and content; process_message        *)
(* returns from the staleness check with the id recorded in the cache.     *)
C3_StaleIsDropped ==
    (message_id[T] # NoId /\ ~WasDuplicate /\ WasStale) =>
        /\ pc[T] = "idle"
        /\ NothingSent
        /\ NoDirectoryCall
        /\ pending_registrations = pre[T].pending
        /\ processed_messages = pre[T].cache \cup {message_id[T]}

\* a stale text from a sender who is awaiting a name was dropped
C3_Witness ==
    /\ Handled /\ ~WasDuplicate /\ WasStale /\ outcome[T] = "stale"
    /\ Message(T).type = "text" /\ WasPending

(* C4 as stated: between two message handlings the dedup cache never holds *)
(* more than MAX_PROCESSED_MESSAGES ids.                                   *)
C4_CacheBound ==
    pc[T] = "idle" =>
        Cardinality(processed_messages) <= MAX_PROCESSED_MESSAGES

(* C5 as stated: after process_message has handled a fresh, not-yet-seen   *)
(* message, its id is in the dedup cache, also when the handling triggered *)
(* the reset of the cache.                                                 *)
C5_HandledIsRecorded ==
    (Handled /\ WasFresh) => message_id[T] \in processed_messages

(* C6 as stated: whenever process_message is about to make a directory     *)
(* call or an outbound send for a message, the id of the message is in the *)
(* dedup cache.                                                            *)
C6_MarkedBeforeResponse ==
    pc[T] \in {"register", "find", "send"} =>
        message_id[T] \in processed_messages

(* C7 as stated: a fresh greeting from a sender who is not awaiting a name *)
(* and whom the directory does not find puts the sender in AwaitingName    *)
(* and is answered by more than one outbound send, the last one asking     *)
(* for the name.                                                           *)
C7_OnboardingSequence ==
    ( /\ Handled /\ WasFresh /\ Message(T).type = "text"
      /\ ~WasPending /\ IsGreeting(Message(T).body)
      /\ result[T].kind = "dict" /\ "user_found" \in result[T].keys
      /\ ~result[T].user_found ) =>
        /\ Sender \in pending_registrations
        /\ Len(sends[T]) > 1
        /\ sends[T][Len(sends[T])].body.arg =
               <<OnboardingLines[Len(OnboardingLines)]>>

\* the greeting of an unknown sender was answered
C7_Witness ==
    /\ Handled /\ WasFresh /\ Message(T).type = "text"
    /\ ~WasPending /\ IsGreeting(Message(T).body)
    /\ result[T].kind = "dict" /\ "user_found" \in result[T].keys
    /\ ~result[T].user_found
    /\ outcome[T] = "sent"

\* the value register returned is a dict whose status is "success"
RegisterReturnedSuccess ==
    /\ result[T].kind = "dict"
    /\ "status" \in result[T].keys
    /\ result[T].status = "success"

\* register returned status "error": the reply of the directory, or the
\* result the client makes of a transport exception
RegisterReturnedError ==
    /\ result[T].kind = "dict"
    /\ "status" \in result[T].keys
    /\ result[T].status = "error"

TheRegisterCall == DirCall("register", Sender, Strip(Message(T).body))

(* C8: a fresh text from a sender in AwaitingName makes exactly one        *)
(* directory call, register with the sender's phone and the trimmed body,  *)
(* and no find; when register returns status success the sender has left   *)
(* AwaitingName and exactly one message is sent, to the sender, the        *)
(* confirmation with that name in it.                                      *)
C8_RegistrationCompletes ==
    (Handled /\ WasFresh /\ Message(T).type = "text" /\ WasPending) =>
        /\ calls[T] = <<TheRegisterCall>>
        /\ RegisterReturnedSuccess =>
             /\ Sender \notin pending_registrations
             /\ Len(sends[T]) = 1
             /\ sends[T][1].to = Sender
             /\ sends[T][1].body = RegisteredText(Strip(Message(T).body))

\* " Al " from a pending sender was registered as "Al" and confirmed
C8_Witness ==
    /\ Handled /\ WasFresh /\ Message(T).type = "text" /\ WasPending
    /\ RegisterReturnedSuccess
    /\ Message(T).body # Strip(Message(T).body)
    /\ Strip(Message(T).body) # Lower(Strip(Message(T).body))
    /\ outcome[T] = "sent"

(* C9: when a sender in AwaitingName sends a fresh text and register       *)
(* returns status error (from the directory or from a transport            *)
(* exception), the sender has left AwaitingName, exactly one message, the  *)
(* generic failure text, is sent, and register was called once; and the    *)
(* next fresh text of that sender, if it matches no greeting keyword, is   *)
(* answered by no send and no directory call and leaves the sender out of  *)
(* AwaitingName.                                                           *)
C9_RegistrationFails ==
    /\ (Handled /\ WasFresh /\ Message(T).type = "text" /\ WasPending
        /\ RegisterReturnedError) =>
            /\ Sender \notin pending_registrations
            /\ Sender \in failed
            /\ calls[T] = <<TheRegisterCall>>
            /\ Len(sends[T]) = 1
            /\ sends[T][1].to = Sender
            /\ sends[T][1].body = RegisterFailedText
    /\ (Handled /\ WasFresh /\ Message(T).type = "text"
        /\ Sender \in pre[T].failed /\ ~IsGreeting(Message(T).body)) =>
            /\ NothingSent
            /\ NoDirectoryCall
            /\ Sender \notin pending_registrations

\* register failed with a transport exception and the failure text was sent
C9_Witness ==
    /\ Handled /\ WasFresh /\ Message(T).type = "text" /\ WasPending
    /\ RegisterReturnedError /\ "message" \in result[T].keys
    /\ outcome[T] = "sent"

(* C10: a fresh text that matches no greeting keyword, from a sender who   *)
(* is not in AwaitingName, causes no outbound send and no directory call   *)
(* and leaves every sender's pending flag as it was.                       *)
C10_NoMatchIsNoOp ==
    (Handled /\ WasFresh /\ Message(T).type = "text" /\ ~WasPending
     /\ ~IsGreeting(Message(T).body)) =>
        /\ NothingSent
        /\ NoDirectoryCall
        /\ pending_registrations = pre[T].pending

\* an unrelated text was ignored while another sender is awaiting a name
C10_Witness ==
    /\ Handled /\ WasFresh /\ Message(T).type = "text" /\ ~WasPending
    /\ ~IsGreeting(Message(T).body)
    /\ outcome[T] = "noreply"
    /\ pending_registrations # {}

\* find returned a dict with status "success", user_found true and a name
FindReturnedUser ==
    /\ result[T].kind = "dict"
    /\ {"status", "user_found", "name"} \subseteq result[T].keys
    /\ result[T].status = "success"
    /\ result[T].user_found

TheFindCall == DirCall("find", Sender, <<>>)

(* C11: when a sender who is not in AwaitingName sends a fresh greeting    *)
(* and find returns status success with user_found true and a name,        *)
(* exactly one message is sent, to the sender, the welcome-back text with  *)
(* that name in it; the only directory call is the find, and no sender's   *)
(* pending flag changes.                                                   *)
C11_RegisteredGreeting ==
    (Handled /\ WasFresh /\ Message(T).type = "text" /\ ~WasPending
     /\ IsGreeting(Message(T).body) /\ FindReturnedUser) =>
        /\ Len(sends[T]) = 1
        /\ sends[T][1].to = Sender
        /\ sends[T][1].body = Text("welcome_back", result[T].name)
        /\ calls[T] = <<TheFindCall>>
        /\ pending_registrations = pre[T].pending

\* "Hi " from a registered sender was answered with the name, while the
\* other sender is awaiting a name
C11_Witness ==
    /\ Handled /\ WasFresh /\ Message(T).type = "text" /\ ~WasPending
    /\ IsGreeting(Message(T).body) /\ FindReturnedUser
    /\ result[T].name = Bob
    /\ outcome[T] = "sent"
    /\ pending_registrations # {}

(* C12: a fresh, not-yet-seen message that is not a text (image, document  *)
(* or any other type) is answered by exactly one send, the fixed           *)
(* acknowledgment of its type, makes no directory call and changes no      *)
(* sender's pending flag: a sender in AwaitingName stays there.            *)
C12_NonTextBypass ==
    (Handled /\ WasFresh /\ Message(T).type # "text") =>
        /\ Len(sends[T]) = 1
        /\ sends[T][1].to = Sender
        /\ sends[T][1].body.template =
               ( CASE Message(T).type = "image" -> "image_unavailable"
                   [] Message(T).type = "document" -> "document_unavailable"
                   [] OTHER -> "received" )
        /\ NoDirectoryCall
        /\ pending_registrations = pre[T].pending

\* an audio message from a sender who is awaiting a name was acknowledged
C12_Witness ==
    /\ Handled /\ WasFresh /\ Message(T).type = "audio"
    /\ WasPending /\ Sender \in pending_registrations
    /\ outcome[T] = "sent"

(* C13 as stated: a not-yet-seen message whose timestamp cannot be parsed  *)
(* (missing, non-numeric, out of the representable range) proceeds like a  *)
(* fresh message: its id is marked processed (it is in the cache, or the   *)
(* cache was cleared after the mark) and the response is generated         *)
(* according to its type and content.                                      *)
C13_UnparseableProceeds ==
    (Handled /\ ~WasDuplicate /\ Message(T).timestamp # "ok") =>
        /\ message_id[T] \in processed_messages \/ processed_messages = {}
        /\ Message(T).type = "text" /\ ~WasPending
              /\ IsGreeting(Message(T).body) => calls[T] = <<TheFindCall>>
        /\ Message(T).type = "text" /\ WasPending =>
              calls[T] = <<TheRegisterCall>>

\* a text with a non-numeric timestamp from a pending sender was registered
C13_Witness ==
    /\ Handled /\ ~WasDuplicate /\ Message(T).timestamp = "unparseable"
    /\ WasPending /\ calls[T] = <<TheRegisterCall>>
    /\ outcome[T] = "sent"

\* receive_message has returned its response
Closed == request[T].state = "closed"

(* C14: every POST /webhook that has ended was answered 200 with the body  *)
(* {"status": "ok"}, whether there was no JSON body, another object, an    *)
(* envelope that made the loops raise, or messages whose handling failed;  *)
(* and a POST that has not ended can always take another step.             *)
C14_AlwaysOk ==
    /\ Closed => request[T].status = 200 /\ request[T].body = "ok"
    /\ request[T].state = "open" => ENABLED NextWebhook

\* a POST answered from the except clause after a message of it was handled
C14_Witness ==
    /\ Closed
    /\ Raises(T)
    /\ request[T].handed # <<>>
    /\ request[T].status = 200

RECURSIVE Concat(_)
Concat(seqs) ==
    IF Len(seqs) = 0 THEN <<>> ELSE Head(seqs) \o Concat(Tail(seqs))

\* the messages of a payload in the order they stand in it
MessagesOfEntry(e) ==
    Concat([i \in 1..Len(e.changes) |-> e.changes[i].messages])

MessagesOfPayload(data) ==
    Concat([i \in 1..Len(data.entry) |-> MessagesOfEntry(data.entry[i])])

WellFormed(data) ==
    /\ data.json
    /\ IsWhatsApp(data)
    /\ \A i \in 1..Len(data.entry) : data.entry[i].is_dict

IsPrefix(s, u) == Len(s) <= Len(u) /\ \A i \in 1..Len(s) : s[i] = u[i]

(* C15: when a POST with a well-formed WhatsApp envelope has ended, the    *)
(* messages handed to process_message are exactly the messages of the      *)
(* payload, each once and in payload order, and every one of those calls   *)
(* has returned, whatever its outcome (an internal error included); while  *)
(* the POST is served the messages handed so far are a prefix of them; and *)
(* after it the next POST is accepted.                                     *)
C15_EveryMessageInOrder ==
    /\ (Closed /\ WellFormed(Data(T))) =>
          /\ request[T].handed = MessagesOfPayload(Data(T))
          /\ Len(request[T].returned) = Len(request[T].handed)
          /\ \A i \in 1..Len(request[T].returned) :
                request[T].returned[i] \in
                    {"duplicate", "stale", "error", "noreply", "sent"}
    /\ (request[T].state # "none" /\ WellFormed(Data(T))) =>
          IsPrefix(request[T].handed, MessagesOfPayload(Data(T)))
    /\ Closed => ENABLED (\E d \in DOMAIN Payloads : Post(T, d))

\* the handling of the first of three messages raised, and the two after
\* it were answered
C15_Witness ==
    /\ Closed
    /\ WellFormed(Data(T))
    /\ Len(request[T].handed) = 3
    /\ request[T].returned = <<"error", "sent", "sent">>

\* the directory call failed in transport, was answered with a status code
\* outside 2xx, or with a body that is not JSON
DirectoryFailed ==
    \/ call.answer.resp.kind \in {"raise", "text"}
    \/ call.answer.code \notin 200..299

C17_SingleDispatch ==
    call.fn = "send" =>
        /\ call.attempt.requests \in {0, 1}
        /\ call.attempt.returned \in BOOLEAN
        /\ call.attempt.returned <=>
              (call.attempt.requests = 1 /\ call.answer = "200")
        /\ (call.access_token # "set" \/ call.phone_number_id # "set") =>
              call.attempt.requests = 0 /\ ~call.attempt.returned
        /\ call.answer # "200" => ~call.attempt.returned

\* a request answered 201 was reported as not sent
C17_Witness ==
    /\ call.fn = "send"
    /\ call.attempt.requests = 1
    /\ call.answer = "201"
    /\ ~call.attempt.returned

\* the sends of handle_new_user_welcome so far are the first messages of
\* its list, in order, to its recipient, and only the last may be in flight
WelcomeLogInOrder ==
    call.fn = "welcome" =>
        /\ Len(call.log) <= Len(WelcomeMessages)
        /\ \A i \in 1..Len(call.log) :
              /\ call.log[i].body = WelcomeMessages[i]
              /\ call.log[i].to = call.to
              /\ i < Len(call.log) => call.log[i].returned
        /\ call.at = "sending" <=>
              (call.log # <<>> /\ ~call.log[Len(call.log)].returned)
        /\ call.at = "done" => Len(call.log) = Len(WelcomeMessages)

(* C18: handle_new_user_welcome sends every message of its list once, to   *)
(* the same recipient, in list order, each send after the one before it    *)
(* has returned, whatever the sends return; and once entered it reaches    *)
(* its end.                                                                *)
C18_WelcomeRunsToEnd ==
    /\ []WelcomeLogInOrder
    /\ (call.fn = "welcome") ~> (call.fn = "welcome" /\ call.at = "done")

\* the sequence ended after its second send failed and its third succeeded
C18_Witness ==
    /\ call.fn = "welcome"
    /\ call.at = "done"
    /\ Len(call.log) = Len(WelcomeMessages)
    /\ ~call.log[2].ok
    /\ call.log[3].ok

\* hub.mode is "subscribe" and hub.verify_token is the secret
Verified ==
    call.mode = "subscribe" /\ call.token = WEBHOOK_VERIFY_TOKEN

(* C19: a GET /webhook that carries a challenge is answered 200 with the   *)
(* challenge exactly when hub.mode is "subscribe" and hub.verify_token is  *)
(* the secret; every request with another mode or token, a missing one     *)
(* included, is answered 403 with a body that is not the challenge.        *)
C19_Verification ==
    call.fn = "verify" =>
        /\ call.challenge # Absent =>
              ((call.reply.status = 200 /\ call.reply.body = call.challenge)
               <=> Verified)
        /\ call.reply.status = 200 => Verified
        /\ ~Verified =>
              /\ call.reply.status = 403
              /\ call.reply.body # call.challenge

\* the challenge was returned to a request with the right mode and token
C19_Witness ==
    /\ call.fn = "verify"
    /\ Verified
    /\ call.challenge = "c2"
    /\ call.reply.status = 200
    /\ call.reply.body = "c2"

\* thread t has passed the duplicate check and has not yet marked its id
BetweenCheckAndMark(t) == pc[t] \in {"stale", "mark"}

\* the duplicate check of thread u lets its message through
PassesCheck(u) == CheckDuplicate(u) /\ pc'[u] = "stale"

(* C20: nothing excludes a second delivery from the window between the     *)
(* check and the mark of the first: whenever one thread stands between its *)
(* check and its mark of an id and another thread stands at the check of   *)
(* the same id, not yet in the cache, that check can pass too.  The        *)
(* witness is the interleaving the claim speaks of: both deliveries of one *)
(* fresh id passed the check before either marked, and both were answered. *)
C20_CheckIsUnguarded ==
    \A t \in Threads : \A u \in Threads \ {t} :
        ( /\ BetweenCheckAndMark(t)
          /\ pc[u] = "dedup"
          /\ message_id[u] = message_id[t]
          /\ message_id[u] \notin processed_messages ) =>
            ENABLED PassesCheck(u)

\* both threads were handed the same id while the cache was empty, and both
\* sent a response for it
C20_Witness ==
    /\ \A t \in Threads :
          /\ pc[t] = "idle"
          /\ message_id[t] = 1
          /\ pre[t].cache = {}
          /\ outcome[t] = "sent"
          /\ Len(sends[t]) = 1
    /\ processed_messages = {1}

(* C21: between two entries of a sender into pending_registrations at most *)
(* one register call is made for that sender, however the handlings of the *)
(* sender's messages on the two threads interleave.                        *)
C21_OneShotRegistration == \A s \in Senders : attempts[s] <= 1

\* both threads stand after their register call for the same sender, with
\* two different messages, and the sender entered pending_registrations once
C21_Witness ==
    /\ \A t \in Threads : pc[t] = "pop" /\ Message(t).from = "s1"
    /\ \E t \in Threads : \E u \in Threads : message_id[t] # message_id[u]
    /\ attempts["s1"] = 2

(* C22: the handling of one fresh, not-yet-seen text makes at most one     *)
(* directory call: the register call when the sender is in AwaitingName    *)
(* (a greeting keyword is then the name, and no find is made), the find    *)
(* call when the sender is not and the text matches a greeting keyword,    *)
(* and none otherwise.                                                     *)
C22_DirectoryCallSelection ==
    (Handled /\ WasFresh /\ Message(T).type = "text") =>
        /\ Len(calls[T]) <= 1
        /\ WasPending <=> calls[T] = <<TheRegisterCall>>
        /\ (~WasPending /\ IsGreeting(Message(T).body)) <=>
              calls[T] = <<TheFindCall>>
        /\ (~WasPending /\ ~IsGreeting(Message(T).body)) <=>
              calls[T] = <<>>

\* "Hi " from a sender in AwaitingName was registered as the name "Hi"
C22_Witness ==
    /\ Handled /\ WasFresh /\ Message(T).type = "text"
    /\ WasPending
    /\ IsGreeting(Message(T).body)
    /\ calls[T] = <<DirCall("register", Sender, <<"H", "i">>)>>

\* find returned a dict that does not report a found user: status "error"
\* (from the directory, or the result of a transport failure), or status
\* "success" without a true user_found
FindReturnedNoUser ==
    /\ result[T].kind = "dict"
    /\ ~( /\ "status" \in result[T].keys /\ result[T].status = "success"
          /\ "user_found" \in result[T].keys /\ result[T].user_found )

\* the handling so far is that of a fresh greeting of a sender who was not
\* in AwaitingName, and its find has not reported a found user
GreetingNotFound ==
    /\ message_id[T] # NoId
    /\ WasFresh /\ Message(T).type = "text"
    /\ ~WasPending /\ IsGreeting(Message(T).body)
    /\ calls[T] = <<TheFindCall>>
    /\ FindReturnedNoUser

(* C23: when a sender not in AwaitingName sends a fresh greeting and find  *)
(* fails or does not report a found user, the sender is put in             *)
(* AwaitingName and is sent the onboarding prompt, whatever the reason     *)
(* (status error, transport failure, success without user_found); and no   *)
(* sender enters AwaitingName in any other way.                            *)
C23_LookupFailureIsNotFound ==
    /\ (Handled /\ GreetingNotFound) =>
          /\ Sender \in pending_registrations
          /\ sends[T] # <<>>
          /\ \A i \in 1..Len(sends[T]) :
                /\ sends[T][i].to = Sender
                /\ sends[T][i].body.template = "onboarding"
    /\ \/ pending_registrations \subseteq pre[T].pending
       \/ /\ GreetingNotFound
          /\ pending_registrations = pre[T].pending \cup {Sender}

\* find failed in transport and the sender was asked for a name
C23_Witness ==
    /\ Handled /\ GreetingNotFound
    /\ result[T] = ErrorResult
    /\ Sender \in pending_registrations
    /\ outcome[T] = "sent"

\* the eight keywords
ClaimedKeywords ==
    { <<"h","e","l","l","o">>,
      <<"h","i">>,
      <<"h","e","y">>,
      <<"g","o","o","d"," ","m","o","r","n","i","n","g">>,
      <<"g","o","o","d"," ","a","f","t","e","r","n","o","o","n">>,
      <<"g","o","o","d"," ","e","v","e","n","i","n","g">>,
      <<"s","a","l","a","m">>,
      <<"m","a","r","h","a","b","a">> }

\* keyword k stands in s from position i + 1 on
StandsAt(k, s, i) ==
    /\ i + Len(k) <= Len(s)
    /\ \A j \in 1..Len(k) : s[i + j] = k[j]

(* C24: a text is matched as a greeting exactly when its lower-cased,      *)
(* trimmed body contains one of the eight keywords at some position, as a  *)
(* whole message, inside a longer sentence or inside a longer word; a text *)
(* without such a substring is not matched.                                *)
C24_GreetingIsSubstring ==
    call.fn = "greeting" =>
        (call.matched <=>
            \E k \in ClaimedKeywords :
                \E i \in 0..Len(call.user_message) :
                    StandsAt(k, Strip(Lower(call.user_message)), i))

\* "this" was matched: the keyword "hi" stands inside a longer word
C24_Witness ==
    /\ call.fn = "greeting"
    /\ call.user_message = <<"t","h","i","s">>
    /\ call.matched

=============================================================================
